---- MODULE Spec2Model ----
(***************************************************************************)
(* Model of src/main.py: the `hnd` command.  main() validates the          *)
(* arguments, get_stories() fetches the listing, fans one rate-limited     *)
(* fetch task per id out to a thread pool, collects the completions, and   *)
(* renders the rows in rank order.                                         *)
(*                                                                         *)
(* Time is measured in ticks of 1/TicksPerSec seconds.  The clock is only  *)
(* observable through time.time() and time.sleep(), so it advances in the  *)
(* actions that call them, and it never runs backwards.  Story ids of a    *)
(* listing are pairwise distinct (an id names one story, a listing ranks   *)
(* stories).                                                               *)
(***************************************************************************)
EXTENDS Integers, Sequences, FiniteSets

VARIABLES
    args,           \* argparse namespace: mode, start, num
    listing,        \* the id list the API serves for args.mode
    pc,             \* position of the main thread
    exc,            \* an exception is propagating out of the `with` block
    ids,            \* get_stories: the sliced window
    total_posts,    \* get_stories: len(ids)
    id_to_index,    \* get_stories: id -> rank
    max_workers,    \* get_stories: pool size
    submitted,      \* number of ids already passed to exe.submit
    tpc,            \* position of the fetch task of each id
    result,         \* outcome stored in each task's future
    lock,           \* rate_limit: holder of the Lock, or Free
    last_time,      \* rate_limit: last_time[0]
    clock,          \* wall clock
    now,            \* wrapper: local `now` of each task
    wait,           \* wrapper: local `wait` of each task
    yielded,        \* futures yielded by as_completed so far, in order
    id_to_post,     \* get_stories: id -> row
    progress,       \* rich.progress.track: total and completed
    table,          \* rich Table rows
    printed,        \* what console.print has written
    admissions,     \* log: values written to last_time[0], in order
    admitted,       \* log: passages through the gate per id
    requests,       \* log: item network requests issued per id
    writes,         \* log: assignments to id_to_post per id
    listing_requests \* log: listing network requests issued

vars == << args, listing, pc, exc, ids, total_posts, id_to_index, max_workers,
           submitted, tpc, result, lock, last_time, clock, now, wait, yielded,
           id_to_post, progress, table, printed, admissions, admitted, requests, writes,
           listing_requests >>

----------------------------------------------------------------------------
(* Bounds *)

MaxListing == 2     \* longest listing the API serves
MaxStart == 2       \* largest --start tried in a full run
MaxNum == 2         \* largest --num tried in a full run
Resolution == 1     \* clock ticks per rate-limiter interval
MaxStep == 1        \* largest clock advance between two observations
StartClock == 2     \* wall clock when the process starts
ArgMargin == 1       \* how far around each limit --num is tried
MaxPool == 2        \* largest max_workers argument tried

----------------------------------------------------------------------------
(* Program constants *)

calls_per_sec == 10
DefaultMaxWorkers == 10
TopLimit == 500
AskLimit == 200

MODE_LIMITS ==
    [ top |-> TopLimit, new |-> TopLimit, best |-> TopLimit,
      ask |-> AskLimit, show |-> AskLimit, job |-> AskLimit ]

Modes == DOMAIN MODE_LIMITS

TicksPerSec == calls_per_sec * Resolution

interval == TicksPerSec \div calls_per_sec

Free == 0

----------------------------------------------------------------------------
(* Values *)

StoryIds == { 100 + i : i \in 1..MaxListing }

\* the ranking the API holds: ids pairwise distinct, not in id order
Ranking == [ i \in 1..MaxListing |-> 100 + (MaxListing + 1 - i) ]

\* the API serves the ranking, or as much of it as exists
Listings == { SubSeq(Ranking, 1, k) : k \in 0..MaxListing }

Range(s) == { s[i] : i \in 1..Len(s) }

Max(a, b) == IF a >= b THEN a ELSE b

Min(a, b) == IF a <= b THEN a ELSE b

DigitChars == << "0", "1", "2", "3", "4", "5", "6", "7", "8", "9" >>

\* str(i) of a non-negative int: its decimal digits
RECURSIVE str(_)
str(i) ==
    IF i < 10 THEN << DigitChars[i + 1] >>
    ELSE str(i \div 10) \o << DigitChars[(i % 10) + 1] >>

\* s[lo:hi] for 0 <= lo, 0 <= hi
Slice(s, lo, hi) ==
    IF lo >= Min(hi, Len(s)) THEN << >>
    ELSE SubSeq(s, lo + 1, Min(hi, Len(s)))

\* Python values returned by dict.get: None or a str
None == [ none |-> TRUE, s |-> << >> ]

PyStr(s) == [ none |-> FALSE, s |-> s ]

Truthy(v) == ~v.none /\ v.s # << >>

\* b taken only when a is None
OrNone(a, b) == IF ~a.none THEN a ELSE b

\* a or b
Or(a, b) == IF Truthy(a) THEN a ELSE b

\* JSON values an item request may parse to
JsonNull == [ type |-> "null", fields |-> [ k \in {} |-> None ] ]

JsonObject(f) == [ type |-> "object", fields |-> f ]

TitleOf(id) == << "title of " >> \o str(id)

UrlOf(id) == << "http://example.com/" >> \o str(id)

\* the item documents tried: no field, the title alone, both fields, and
\* both fields with either one empty
FieldMaps(id) ==
    { [ k \in {} |-> None ],
      [ k \in { "title" } |-> PyStr(TitleOf(id)) ],
      [ title |-> PyStr(TitleOf(id)), url |-> PyStr(UrlOf(id)) ],
      [ title |-> PyStr(<< >>), url |-> PyStr(UrlOf(id)) ],
      [ title |-> PyStr(TitleOf(id)), url |-> PyStr(<< >>) ] }

\* outcomes of requests.get(ITEM.format(id), timeout=10).json()
Raised == [ kind |-> "raise", json |-> JsonNull ]

Returned(j) == [ kind |-> "return", json |-> j ]

Pending == [ kind |-> "pending", json |-> JsonNull ]

Responses(id) ==
    { Raised, Returned(JsonNull) } \cup { Returned(JsonObject(f)) : f \in FieldMaps(id) }

\* story.get(key)
Get(story, key) ==
    IF key \in DOMAIN story.fields THEN story.fields[key] ELSE None

\* table cells: a plain str or a styled rich Text
Plain(s) == [ text |-> s, style |-> "" ]

Styled(s, style) == [ text |-> s, style |-> style ]

Permalink(id) == << "https://news.ycombinator.com/item?id=" >> \o str(id)

\* the glyph is written by its code point
PlaceholderRow(index) ==
    << Plain(str(index)), Plain(<< "<RATE LIMITED>" >>), Plain(<< "U+1F62D" >>) >>

StoryRow(index, id, story) ==
    LET title == Or(Get(story, "title"), PyStr(<< "<no title>" >>))
        url == Or(Get(story, "url"), PyStr(Permalink(id)))
    IN  << Plain(str(index)),
           Styled(title.s, "bold yellow"),
           Styled(url.s, "blue underline") >>

----------------------------------------------------------------------------
(* Initial states *)

NoTasks == [ id \in StoryIds |-> "none" ]

InitState ==
    /\ pc = "main"
    /\ exc = FALSE
    /\ ids = << >>
    /\ total_posts = 0
    /\ id_to_index = [ id \in {} |-> 0 ]
    /\ submitted = 0
    /\ tpc = NoTasks
    /\ result = [ id \in StoryIds |-> Pending ]
    /\ lock = Free
    /\ last_time = 0
    /\ clock = StartClock
    /\ now = [ id \in StoryIds |-> 0 ]
    /\ wait = [ id \in StoryIds |-> 0 ]
    /\ yielded = << >>
    /\ id_to_post = [ id \in {} |-> << >> ]
    /\ progress = [ total |-> 0, completed |-> 0 ]
    /\ table = << >>
    /\ printed = << >>
    /\ admissions = << >>
    /\ admitted = [ id \in StoryIds |-> 0 ]
    /\ requests = [ id \in StoryIds |-> 0 ]
    /\ writes = [ id \in StoryIds |-> 0 ]
    /\ listing_requests = 0

\* main calls get_stories with max_workers left at its default
InitRun ==
    /\ InitState
    /\ max_workers = DefaultMaxWorkers

Init ==
    /\ args \in [ mode : { "top" }, start : 0..MaxStart, num : 0..MaxNum ]
    /\ listing \in Listings
    /\ InitRun

----------------------------------------------------------------------------
(* main *)

\* the limit test excluding the limit itself
InvalidOffByOne(a) ==
    \/ a.start < 1
    \/ a.num < 1
    \/ a.start + a.num - 1 >= MODE_LIMITS[a.mode]

Invalid(a) ==
    \/ a.start < 1
    \/ a.num < 1
    \/ a.start + a.num - 1 > MODE_LIMITS[a.mode]

\* parser.error(...) exits; otherwise get_stories is entered
Validate ==
    /\ pc = "main"
    /\ pc' = IF Invalid(args) THEN "usage_error" ELSE "get_stories"
    /\ UNCHANGED << args, listing, exc, ids, total_posts, id_to_index,
                    max_workers, submitted, tpc, result, lock, last_time,
                    clock, now, wait, yielded, id_to_post, progress, table,
                    printed, admissions, admitted, requests, writes, listing_requests >>

----------------------------------------------------------------------------
(* get_stories: the listing *)

\* the listing request sent through the gate as well
RequestListingGated ==
    /\ pc = "get_stories"
    /\ lock = Free
    /\ pc' = "listing"
    /\ last_time' = clock
    /\ admissions' = Append(admissions, clock)
    /\ listing_requests' = listing_requests + 1
    /\ UNCHANGED << args, listing, exc, ids, total_posts, id_to_index,
                    max_workers, submitted, tpc, result, lock, clock, now,
                    wait, yielded, id_to_post, progress, table, printed,
                    admitted, requests, writes >>

RequestListing ==
    /\ pc = "get_stories"
    /\ pc' = "listing"
    /\ listing_requests' = listing_requests + 1
    /\ UNCHANGED << args, listing, exc, ids, total_posts, id_to_index,
                    max_workers, submitted, tpc, result, lock, last_time,
                    clock, now, wait, yielded, id_to_post, progress, table,
                    printed, admissions, admitted, requests, writes >>

\* the request or .json() raises: the exception leaves get_stories and main
ListingFails ==
    /\ pc = "listing"
    /\ pc' = "listing_error"
    /\ UNCHANGED << args, listing, exc, ids, total_posts, id_to_index,
                    max_workers, submitted, tpc, result, lock, last_time,
                    clock, now, wait, yielded, id_to_post, progress, table,
                    printed, admissions, admitted, requests, writes, listing_requests >>

\* the window taken one position late
WindowOffByOne(l, start, n) == Slice(l, start, start + n)

Window(l, start, n) == Slice(l, start - 1, start - 1 + n)

\* enumerate(ids): the ranks counted from 0 whatever the start
EnumerateFromZero(s, start) == [ id \in Range(s) |->
    (CHOOSE i \in 1..Len(s) : s[i] = id /\ \A j \in (i + 1)..Len(s) : s[j] # id) - 1 ]

\* enumerate(ids, start)
Enumerate(s, start) == [ id \in Range(s) |->
    start + (CHOOSE i \in 1..Len(s) : s[i] = id /\ \A j \in (i + 1)..Len(s) : s[j] # id) - 1 ]

\* the pool left at the configured size
PoolSizeFixed(workers, n) == workers

PoolSize(workers, n) == Max(workers, n)

ListingReturns ==
    /\ pc = "listing"
    /\ ids' = Window(listing, args.start, args.num)
    /\ total_posts' = Len(ids')
    /\ id_to_index' = Enumerate(ids', args.start)
    /\ max_workers' = PoolSize(max_workers, args.num)
    /\ id_to_post' = [ id \in {} |-> << >> ]
    /\ pc' = "submit"
    /\ UNCHANGED << args, listing, exc, submitted, tpc, result, lock,
                    last_time, clock, now, wait, yielded, progress, table,
                    printed, admissions, admitted, requests, writes, listing_requests >>

\* the dict comprehension over exe.submit, then track(as_completed(...))
Submit ==
    /\ pc = "submit"
    /\ IF submitted < Len(ids)
       THEN /\ submitted' = submitted + 1
            /\ tpc' = [ tpc EXCEPT ![ids[submitted + 1]] = "queued" ]
            /\ UNCHANGED << pc, progress >>
       ELSE /\ pc' = "collect"
            /\ progress' = [ total |-> total_posts, completed |-> 0 ]
            /\ UNCHANGED << submitted, tpc >>
    /\ UNCHANGED << args, listing, exc, ids, total_posts, id_to_index,
                    max_workers, result, lock, last_time, clock, now, wait,
                    yielded, id_to_post, table, printed, admissions, admitted, requests,
                    writes, listing_requests >>

----------------------------------------------------------------------------
(* rate_limit.wrapper around get_article_by_id, run by a pool thread *)

Futures == Range(SubSeq(ids, 1, submitted))

Running == { id \in StoryIds : tpc[id] \in { "acquire", "now", "sleep", "stamp", "call", "inflight" } }

InGate == { id \in StoryIds : tpc[id] \in { "now", "sleep", "stamp" } }

\* the work item run without the rate_limit decorator
StartUngated(id) ==
    /\ tpc[id] = "queued"
    /\ Cardinality(Running) < max_workers
    /\ tpc' = [ tpc EXCEPT ![id] = "call" ]
    /\ UNCHANGED << args, listing, pc, exc, ids, total_posts, id_to_index,
                    max_workers, submitted, result, lock, last_time, clock,
                    now, wait, yielded, id_to_post, progress, table, printed,
                    admissions, admitted, requests, writes, listing_requests >>

\* a pool thread takes the work item
Start(id) ==
    /\ tpc[id] = "queued"
    /\ Cardinality(Running) < max_workers
    /\ tpc' = [ tpc EXCEPT ![id] = "acquire" ]
    /\ UNCHANGED << args, listing, pc, exc, ids, total_posts, id_to_index,
                    max_workers, submitted, result, lock, last_time, clock,
                    now, wait, yielded, id_to_post, progress, table, printed,
                    admissions, admitted, requests, writes, listing_requests >>

\* entering the section without taking the lock
AcquireUnlocked(id) ==
    /\ tpc[id] = "acquire"
    /\ lock' = id
    /\ tpc' = [ tpc EXCEPT ![id] = "now" ]
    /\ UNCHANGED << args, listing, pc, exc, ids, total_posts, id_to_index,
                    max_workers, submitted, result, last_time, clock, now,
                    wait, yielded, id_to_post, progress, table, printed,
                    admissions, admitted, requests, writes, listing_requests >>

\* with lock:
Acquire(id) ==
    /\ tpc[id] = "acquire"
    /\ lock = Free
    /\ lock' = id
    /\ tpc' = [ tpc EXCEPT ![id] = "now" ]
    /\ UNCHANGED << args, listing, pc, exc, ids, total_posts, id_to_index,
                    max_workers, submitted, result, last_time, clock, now,
                    wait, yielded, id_to_post, progress, table, printed,
                    admissions, admitted, requests, writes, listing_requests >>

\* the elapsed time taken since the epoch instead of since the last call
WaitSinceStart(t, last) == interval - t

\* wait = interval - (now - last_time[0])
Wait(t, last) == interval - (t - last)

\* now = time.time(); elapsed; wait; if wait > 0
ReadNow(id) ==
    /\ tpc[id] = "now"
    /\ \E d \in 0..MaxStep :
        /\ clock' = clock + d
        /\ now' = [ now EXCEPT ![id] = clock' ]
        /\ wait' = [ wait EXCEPT ![id] = Wait(clock', last_time) ]
    /\ tpc' = [ tpc EXCEPT ![id] = IF wait'[id] > 0 THEN "sleep" ELSE "stamp" ]
    /\ UNCHANGED << args, listing, pc, exc, ids, total_posts, id_to_index,
                    max_workers, submitted, result, lock, last_time, yielded,
                    id_to_post, progress, table, printed, admissions, admitted,
                    requests, writes, listing_requests >>

\* the clock after time.sleep(secs) begun at t
Slept(t, secs) == t + secs

\* time.sleep(wait)
Sleep(id) ==
    /\ tpc[id] = "sleep"
    /\ clock' = Slept(clock, wait[id])
    /\ tpc' = [ tpc EXCEPT ![id] = "stamp" ]
    /\ UNCHANGED << args, listing, pc, exc, ids, total_posts, id_to_index,
                    max_workers, submitted, result, lock, last_time, now,
                    wait, yielded, id_to_post, progress, table, printed,
                    admissions, admitted, requests, writes, listing_requests >>

\* the stamp written with the with block still open around the call
StampHolding(id) ==
    /\ tpc[id] = "stamp"
    /\ \E d \in 0..MaxStep : clock' = clock + d
    /\ last_time' = clock'
    /\ admissions' = Append(admissions, clock')
    /\ admitted' = [ admitted EXCEPT ![id] = @ + 1 ]
    /\ now' = [ now EXCEPT ![id] = 0 ]
    /\ wait' = [ wait EXCEPT ![id] = 0 ]
    /\ tpc' = [ tpc EXCEPT ![id] = "call" ]
    /\ UNCHANGED << args, listing, pc, exc, ids, total_posts, id_to_index,
                    max_workers, submitted, result, lock, yielded, id_to_post,
                    progress, table, printed, requests, writes,
                    listing_requests >>

\* last_time[0] = time.time(), and the end of the with block
Stamp(id) ==
    /\ tpc[id] = "stamp"
    /\ \E d \in 0..MaxStep : clock' = clock + d
    /\ last_time' = clock'
    /\ admissions' = Append(admissions, clock')
    /\ admitted' = [ admitted EXCEPT ![id] = @ + 1 ]
    /\ lock' = Free
    /\ now' = [ now EXCEPT ![id] = 0 ]
    /\ wait' = [ wait EXCEPT ![id] = 0 ]
    /\ tpc' = [ tpc EXCEPT ![id] = "call" ]
    /\ UNCHANGED << args, listing, pc, exc, ids, total_posts, id_to_index,
                    max_workers, submitted, result, yielded, id_to_post,
                    progress, table, printed, requests, writes,
                    listing_requests >>

\* requests.get(ITEM.format(id), timeout=10) is sent
Request(id) ==
    /\ tpc[id] = "call"
    /\ requests' = [ requests EXCEPT ![id] = @ + 1 ]
    /\ tpc' = [ tpc EXCEPT ![id] = "inflight" ]
    /\ UNCHANGED << args, listing, pc, exc, ids, total_posts, id_to_index,
                    max_workers, submitted, result, lock, last_time, clock,
                    now, wait, yielded, id_to_post, progress, table, printed,
                    admissions, admitted, writes, listing_requests >>

\* a raised request sent through the gate again
AfterResponseRetry(r) == IF r.kind = "raise" THEN "acquire" ELSE "done"

\* where the task goes once its request has ended with outcome r
AfterResponse(r) == "done"

\* the request returns, raises or times out; the future is resolved
Respond(id) ==
    /\ tpc[id] = "inflight"
    /\ \E r \in Responses(id) :
        /\ result' = [ result EXCEPT ![id] = r ]
        /\ tpc' = [ tpc EXCEPT ![id] = AfterResponse(r) ]
    /\ UNCHANGED << args, listing, pc, exc, ids, total_posts, id_to_index,
                    max_workers, submitted, lock, last_time, clock, now, wait,
                    yielded, id_to_post, progress, table, printed, admissions, admitted,
                    requests, writes, listing_requests >>

----------------------------------------------------------------------------
(* get_stories: collecting and rendering *)

Done(id) == tpc[id] = "done"

\* finished futures yielded again on every pass
CompletedAgain == { f \in Futures : Done(f) }

\* futures yielded whether finished or not
CompletedAny == { f \in Futures : f \notin Range(yielded) }

\* futures as_completed may yield next
Completed == { f \in Futures : Done(f) /\ f \notin Range(yielded) }

\* a raised fetch shown as a story without fields
RowForSwallow(index, id, r) ==
    IF r.kind = "raise" THEN StoryRow(index, id, JsonObject([ k \in {} |-> None ]))
    ELSE StoryRow(index, id, r.json)

\* the row recorded for a future whose result() returned or raised
RowFor(index, id, r) ==
    IF r.kind = "raise" THEN PlaceholderRow(index) ELSE StoryRow(index, id, r.json)

\* the rank taken from the order of completion
IndexByArrival(id) == args.start + Len(yielded)

\* index = id_to_index[id]
Index(id) == id_to_index[id]

\* one iteration of the for loop over track(as_completed(future_to_id)):
\* story.get on a value that is no dict raises out of the loop
Collect(f) ==
    /\ pc = "collect"
    /\ f \in Completed
    /\ yielded' = Append(yielded, f)
    /\ IF result[f].kind = "return" /\ result[f].json.type # "object"
       THEN /\ exc' = TRUE
            /\ pc' = "exit_pool"
            /\ UNCHANGED << id_to_post, writes, progress >>
       ELSE /\ id_to_post' = [ id \in DOMAIN id_to_post \cup { f } |->
                IF id = f THEN RowFor(Index(f), f, result[f]) ELSE id_to_post[id] ]
            /\ writes' = [ writes EXCEPT ![f] = @ + 1 ]
            /\ progress' = [ progress EXCEPT !.completed = @ + 1 ]
            /\ UNCHANGED << exc, pc >>
    /\ UNCHANGED << args, listing, ids, total_posts, id_to_index, max_workers,
                    submitted, tpc, result, lock, last_time, clock, now, wait,
                    table, printed, admissions, admitted, requests, listing_requests >>

\* the loop left after the first completion
ExhaustedEarly == yielded # << >> \/ Futures = {}

\* as_completed has yielded every future
Exhausted == Range(yielded) = Futures

EndCollect ==
    /\ pc = "collect"
    /\ Exhausted
    /\ pc' = "exit_pool"
    /\ UNCHANGED << args, listing, exc, ids, total_posts, id_to_index,
                    max_workers, submitted, tpc, result, lock, last_time,
                    clock, now, wait, yielded, id_to_post, progress, table,
                    printed, admissions, admitted, requests, writes, listing_requests >>

\* shutdown(wait=True) returns
Joined == \A f \in Futures : Done(f)

\* ThreadPoolExecutor.__exit__
ExitPool ==
    /\ pc = "exit_pool"
    /\ Joined
    /\ pc' = IF exc THEN "crashed" ELSE "render"
    /\ UNCHANGED << args, listing, exc, ids, total_posts, id_to_index,
                    max_workers, submitted, tpc, result, lock, last_time,
                    clock, now, wait, yielded, id_to_post, progress, table,
                    printed, admissions, admitted, requests, writes, listing_requests >>

\* for id in ids: table.add_row(*id_to_post[id])
AddRows ==
    /\ pc = "render"
    /\ IF \A i \in 1..Len(ids) : ids[i] \in DOMAIN id_to_post
       THEN /\ table' = [ i \in 1..Len(ids) |-> id_to_post[ids[i]] ]
            /\ pc' = "print"
       ELSE /\ table' = table
            /\ pc' = "crashed"
    /\ UNCHANGED << args, listing, exc, ids, total_posts, id_to_index,
                    max_workers, submitted, tpc, result, lock, last_time,
                    clock, now, wait, yielded, id_to_post, progress, printed,
                    admissions, admitted, requests, writes, listing_requests >>

\* console.print(table)
console_print ==
    /\ pc = "print"
    /\ printed' = table
    /\ pc' = "exit"
    /\ UNCHANGED << args, listing, exc, ids, total_posts, id_to_index,
                    max_workers, submitted, tpc, result, lock, last_time,
                    clock, now, wait, yielded, id_to_post, progress, table,
                    admissions, admitted, requests, writes, listing_requests >>

----------------------------------------------------------------------------

Next ==
    \/ Validate
    \/ RequestListing
    \/ ListingFails
    \/ ListingReturns
    \/ Submit
    \/ \E id \in StoryIds : Start(id)
    \/ \E id \in StoryIds : Acquire(id)
    \/ \E id \in StoryIds : ReadNow(id)
    \/ \E id \in StoryIds : Sleep(id)
    \/ \E id \in StoryIds : Stamp(id)
    \/ \E id \in StoryIds : Request(id)
    \/ \E id \in StoryIds : Respond(id)
    \/ \E f \in StoryIds : Collect(f)
    \/ EndCollect
    \/ ExitPool
    \/ AddRows
    \/ console_print

Spec == Init /\ [][Next]_vars

----------------------------------------------------------------------------
(* Scheduling: the main thread and every pool thread keep running, every
   request returns, raises or times out, and a thread waiting for the lock
   gets it once it stays free *)

MainThread ==
    \/ Validate
    \/ RequestListing
    \/ ListingFails
    \/ ListingReturns
    \/ Submit
    \/ \E f \in StoryIds : Collect(f)
    \/ EndCollect
    \/ ExitPool
    \/ AddRows
    \/ console_print

PoolThread(id) ==
    \/ Start(id)
    \/ Acquire(id)
    \/ ReadNow(id)
    \/ Sleep(id)
    \/ Stamp(id)
    \/ Request(id)
    \/ Respond(id)

Fairness ==
    /\ WF_vars(MainThread)
    /\ \A id \in StoryIds : WF_vars(PoolThread(id))

FairSpec == Init /\ [][Next]_vars /\ Fairness

----------------------------------------------------------------------------
(* Argument validation over the whole range of limits *)

CliStarts == (0 - ArgMargin)..MaxStart

CliNums == { 0, 1 } \cup
    { MODE_LIMITS[m] + k : m \in Modes, k \in (0 - ArgMargin)..ArgMargin }

InitArgs ==
    /\ args \in [ mode : Modes, start : CliStarts, num : CliNums ]
    /\ listing \in Listings
    /\ InitRun

NextArgs ==
    \/ Validate
    \/ RequestListing
    \/ ListingFails
    \/ ListingReturns

ArgSpec == InitArgs /\ [][NextArgs]_vars

----------------------------------------------------------------------------
(* get_stories entered with other values of its max_workers parameter *)

InitPool ==
    /\ args \in [ mode : { "top" }, start : { 1 }, num : 1..MaxNum ]
    /\ listing \in Listings
    /\ InitState
    /\ max_workers \in 1..MaxPool

PoolSpec == InitPool /\ [][Next]_vars

----------------------------------------------------------------------------
(* Properties *)

AfterLoop == pc \in { "render", "print", "exit" }

\* the number of listing entries from rank start on, at most num
Available ==
    LET rest == Len(listing) - (args.start - 1)
    IN  IF rest < 0 THEN 0 ELSE IF rest < args.num THEN rest ELSE args.num

RankCell(i) == Plain(str(args.start + i - 1))

\* C1: any two consecutive admissions through the gate are at least one
\* interval apart on the stamps written to last_time[0], so N admissions span
\* at least (N - 1) intervals, whatever the number of concurrent workers.
C1_GateSpacing ==
    /\ \A i \in 1..(Len(admissions) - 1) :
          admissions[i + 1] - admissions[i] >= interval
    /\ Len(admissions) >= 1 =>
          admissions[Len(admissions)] - admissions[1] >= (Len(admissions) - 1) * interval
    /\ Len(admissions) >= 1 => last_time = admissions[Len(admissions)]

\* two workers admitted, the second exactly one interval after the first
C1_Witness ==
    /\ Len(admissions) >= 2
    /\ admissions[2] - admissions[1] = interval

\* C2 as stated: the rendered table has exactly num rows, ranked start,
\* start+1, ..., for every listing.
C2_Original ==
    pc = "exit" =>
        /\ Len(printed) = args.num
        /\ \A i \in 1..Len(printed) : printed[i][1] = RankCell(i)

\* C2 amended: the rendered table has one row per listing entry in the
\* window, min(num, max(0, len(listing) - start + 1)) rows, which is num when
\* the listing reaches rank start+num-1, and row i carries rank start+i-1.
C2_TableRows ==
    pc = "exit" =>
        /\ Len(printed) = Available
        /\ Len(listing) >= args.start + args.num - 1 => Len(printed) = args.num
        /\ \A i \in 1..Len(printed) : printed[i][1] = RankCell(i)

\* a table starting at rank 2, cut short by the end of the listing
C2_Witness ==
    /\ pc = "exit"
    /\ args.start = 2
    /\ Len(printed) = 1
    /\ Len(printed) < args.num

\* C3: in the rendered table exactly the rows of the ids whose fetch raised
\* are the placeholder (rank, "<RATE LIMITED>", glyph), every other row is
\* styled and carries the title and url fetched for its own id, and there is
\* one row per id of the window whichever fetches raised.
C3_PartialFailure ==
    pc = "exit" =>
        /\ Len(printed) = Len(ids)
        /\ \A i \in 1..Len(ids) :
            LET r == result[ids[i]]
                f == r.json.fields
            IN  IF r.kind = "raise"
                THEN printed[i] = << RankCell(i), Plain(<< "<RATE LIMITED>" >>),
                                     Plain(<< "U+1F62D" >>) >>
                ELSE /\ printed[i][1] = RankCell(i)
                     /\ printed[i][2].style = "bold yellow"
                     /\ printed[i][3].style = "blue underline"
                     /\ ("title" \in DOMAIN f /\ f["title"].s # << >>) =>
                            printed[i][2].text = f["title"].s
                     /\ ("url" \in DOMAIN f /\ f["url"].s # << >>) =>
                            printed[i][3].text = f["url"].s

\* two rows: the first fetch raised, the second returned both fields
C3_Witness ==
    /\ pc = "exit"
    /\ Len(ids) = 2
    /\ result[ids[1]].kind = "raise"
    /\ result[ids[2]].kind = "return"
    /\ DOMAIN result[ids[2]].json.fields = { "title", "url" }
    /\ result[ids[2]].json.fields["title"].s # << >>

\* C4: once the listing has been retrieved the run no longer aborts.
C4_NoAbortAfterListing == pc # "crashed" /\ ~exc

\* C5: the rendered table is a function of the arguments, the listing and
\* each id's fetch outcome only, whatever the order of completion; whether a
\* table is rendered at all depends on the outcomes only.
C5_Deterministic ==
    LET NonObject(id) == result[id].kind = "return" /\ result[id].json.type # "object"
    IN  /\ pc = "exit" =>
            /\ ids = Slice(listing, args.start - 1, args.start - 1 + args.num)
            /\ printed = [ i \in 1..Len(ids) |->
                             RowFor(args.start + i - 1, ids[i], result[ids[i]]) ]
            /\ \A i \in 1..Len(ids) : ~NonObject(ids[i])
        /\ pc = "crashed" => \E i \in 1..Len(ids) : NonObject(ids[i])

\* a table rendered after the futures completed in reverse rank order
C5_Witness ==
    /\ pc = "exit"
    /\ Len(ids) = 2
    /\ yielded = << ids[2], ids[1] >>
    /\ result[ids[1]].kind # result[ids[2]].kind

\* C6: with start < 1, num < 1 or start+num-1 above the mode's maximum (500
\* for top/new/best, 200 for ask/show/job) the process leaves main only to
\* the usage error and no listing or item request is issued; any other
\* arguments, a window ending exactly at the maximum included, never end in
\* the usage error.
C6_Validation ==
    LET limit == IF args.mode \in { "top", "new", "best" } THEN 500 ELSE 200
        bad == args.start < 1 \/ args.num < 1 \/ args.start + args.num - 1 > limit
    IN  /\ bad => /\ pc \in { "main", "usage_error" }
                  /\ listing_requests = 0
                  /\ \A id \in StoryIds : requests[id] = 0 /\ tpc[id] = "none"
        /\ ~bad => pc # "usage_error"

\* one past the limit of top is refused before any request
C6_Witness ==
    /\ pc = "usage_error"
    /\ args = [ mode |-> "top", start |-> 1, num |-> 501 ]
    /\ listing_requests = 0

\* C7: at most one thread is inside the admission section (reading
\* last_time[0], sleeping, writing last_time[0]), and that thread holds the
\* lock.
C7_MutualExclusion ==
    /\ Cardinality(InGate) <= 1
    /\ \A id \in InGate : lock = id
    /\ lock # Free => lock \in InGate

\* one worker is about to write last_time[0] while another waits for the lock
C7_Witness ==
    \E a \in StoryIds :
        /\ tpc[a] = "stamp"
        /\ lock = a
        /\ \E b \in StoryIds : tpc[b] = "acquire"

\* C8: each id of the window gets exactly one fetch task and at most one item
\* request; an id whose request ended, raised or not, is never requested again.
C8_NoRetries ==
    /\ Cardinality(Futures) = submitted
    /\ pc \in { "collect", "exit_pool", "render", "print", "exit" } =>
          Futures = Range(ids) /\ submitted = Len(ids)
    /\ \A id \in StoryIds :
          /\ requests[id] <= 1
          /\ id \notin Futures => requests[id] = 0
          /\ result[id].kind # "pending" => requests[id] = 1 /\ tpc[id] = "done"

\* a run rendered with a raised fetch that was requested once
C8_Witness ==
    /\ pc = "exit"
    /\ \E id \in Range(ids) : result[id].kind = "raise" /\ requests[id] = 1

\* C9 as stated: one tick per completed task, never before its completion,
\* and at rendering the ticks equal the declared total, which equals num.
C9_Original ==
    /\ \A i \in 1..Len(yielded) : Done(yielded[i])
    /\ progress.completed <= Len(yielded)
    /\ AfterLoop =>
          /\ progress.completed = progress.total
          /\ progress.total = args.num

\* C9 amended: the indicator advances at most once per fetch task, only once
\* that task has completed and been handled, and at rendering the ticks equal
\* the declared total, which is the number of ids in the window,
\* min(num, max(0, len(listing) - start + 1)): num when the listing reaches
\* rank start+num-1.
C9_Progress ==
    /\ \A i \in 1..Len(yielded) : Done(yielded[i])
    /\ \A i, j \in 1..Len(yielded) : yielded[i] = yielded[j] => i = j
    /\ progress.completed = Len(yielded) - (IF exc THEN 1 ELSE 0)
    /\ AfterLoop =>
          /\ progress.completed = progress.total
          /\ progress.total = Available
          /\ Len(listing) >= args.start + args.num - 1 => progress.total = args.num

\* a mixed run ticked for each of its two tasks
C9_Witness ==
    /\ pc = "render"
    /\ progress.completed = 2
    /\ progress.total = args.num
    /\ \E a, b \in Range(ids) : result[a].kind = "raise" /\ result[b].kind = "return"

\* C10: rendering starts only after every submitted fetch task has
\* completed, and then the result map has an entry for every id of the window.
C10_FanIn ==
    AfterLoop =>
        /\ submitted = Len(ids)
        /\ \A i \in 1..Len(ids) : tpc[ids[i]] = "done" /\ ids[i] \in DOMAIN id_to_post
        /\ DOMAIN id_to_post = Range(ids)

\* rendering about to start over two collected rows
C10_Witness ==
    /\ pc = "render"
    /\ Len(ids) = 2
    /\ Cardinality(DOMAIN id_to_post) = 2

\* C11: an item request is sent only by a worker that has passed the gate
\* for it, with exactly one passage per request: a task whose request is in
\* flight or has ended passed the gate once, and a task that has not passed
\* the gate has sent nothing.
C11_GateBeforeRequest ==
    \A id \in StoryIds :
        /\ admitted[id] <= 1
        /\ requests[id] <= admitted[id]
        /\ tpc[id] \in { "inflight", "done" } => admitted[id] = 1 /\ requests[id] = 1
        /\ tpc[id] \in { "none", "queued", "acquire", "now", "sleep", "stamp" } =>
              admitted[id] = 0 /\ requests[id] = 0
        /\ tpc[id] = "call" => admitted[id] = 1 /\ requests[id] = 0

\* both workers admitted, both requests in flight
C11_Witness ==
    /\ Len(admissions) = 2
    /\ \A id \in Range(ids) : tpc[id] = "inflight" /\ admitted[id] = 1

\* C12: a run makes one listing request, which ends before any fetch task is
\* submitted and neither waits on nor updates the gate; a failed listing
\* request ends the run with no item request and no table.
C12_Listing ==
    /\ listing_requests <= 1
    /\ pc \notin { "main", "usage_error", "get_stories" } => listing_requests = 1
    /\ pc \in { "main", "usage_error", "get_stories", "listing", "listing_error" } =>
          /\ submitted = 0
          /\ \A id \in StoryIds : tpc[id] = "none" /\ requests[id] = 0
          /\ lock = Free /\ last_time = 0 /\ admissions = << >>
          /\ clock = StartClock
          /\ table = << >> /\ printed = << >>
    /\ (submitted > 0 \/ \E id \in StoryIds : tpc[id] # "none") =>
          pc \in { "submit", "collect", "exit_pool", "render", "print", "exit", "crashed" }

\* the listing request failed after it was sent
C12_Witness ==
    /\ pc = "listing_error"
    /\ listing_requests = 1
    /\ Len(listing) = 2

\* C13: each key of id_to_post is written at most once, in the handling of
\* the future of that id, and a recorded row is never changed or removed.
C13_WriteOnce ==
    [][ \A id \in StoryIds :
          /\ writes'[id] <= 1
          /\ id \in DOMAIN id_to_post =>
                id \in DOMAIN id_to_post' /\ id_to_post'[id] = id_to_post[id]
          /\ (id \in DOMAIN id_to_post' /\ id \notin DOMAIN id_to_post) =>
                /\ pc = "collect"
                /\ yielded' = Append(yielded, id)
                /\ writes'[id] = writes[id] + 1
          /\ writes'[id] # writes[id] => id \notin DOMAIN id_to_post ]_vars

\* both rows recorded once each, the second while the first was kept
C13_Witness ==
    /\ pc = "collect"
    /\ Len(ids) = 2
    /\ \A id \in Range(ids) : writes[id] = 1 /\ id \in DOMAIN id_to_post

\* C14: the pool has max(configured workers, num) threads, never fewer than
\* the submitted tasks, so a queued task always finds a free thread and the
\* whole window can be running at once.
C14_PoolFitsTasks ==
    /\ pc \in { "submit", "collect", "exit_pool", "render", "print", "exit", "crashed" } =>
          /\ max_workers >= args.num
          /\ max_workers >= Len(ids)
    /\ Cardinality(Running) <= max_workers
    /\ \A id \in StoryIds : tpc[id] = "queued" => Cardinality(Running) < max_workers

\* both tasks of the window running at once in a pool of two threads
C14_Witness ==
    /\ max_workers = 2
    /\ args.num = 2
    /\ Cardinality(Running) = 2
    /\ \E id \in StoryIds : tpc[id] = "inflight"
    /\ \E id \in StoryIds : tpc[id] = "acquire"

AfterListing ==
    pc \in { "submit", "collect", "exit_pool", "render", "print", "exit", "crashed" }

\* the last Len(t) elements of s are t
EndsWith(s, t) ==
    Len(s) >= Len(t) /\ SubSeq(s, Len(s) - Len(t) + 1, Len(s)) = t

\* C15: the id at 0-based position i of the window [start-1, start-1+num)
\* of the listing has rank start+i from the moment the listing is resolved,
\* that rank and the window never change, and the row with rank start+i, in
\* the result map and in the final table, is the row of that same id:
\* the placeholder if its fetch raised, a row naming that id otherwise.
C15_RankOfId ==
    /\ [](AfterListing =>
          \A i \in 1..Len(ids) :
              /\ ids[i] = listing[args.start - 1 + i]
              /\ i <= args.num
              /\ id_to_index[ids[i]] = args.start + (i - 1)
              /\ ids[i] \in DOMAIN id_to_post =>
                    LET row == id_to_post[ids[i]]
                    IN  /\ row[1] = Plain(str(args.start + (i - 1)))
                        /\ IF result[ids[i]].kind = "raise"
                           THEN row[2].text = << "<RATE LIMITED>" >>
                           ELSE EndsWith(row[3].text, str(ids[i]))
              /\ pc = "exit" => printed[i] = id_to_post[ids[i]])
    /\ [][AfterListing =>
            /\ ids' = ids
            /\ id_to_index' = id_to_index
            /\ args' = args
            /\ listing' = listing]_vars

\* the second entry of the listing shown alone, with rank 2
C15_Witness ==
    /\ pc = "exit"
    /\ args.start = 2
    /\ Len(listing) = 2
    /\ ids = << listing[2] >>
    /\ result[ids[1]].kind = "return"
    /\ printed[1][1] = Plain(<< "2" >>)

\* C17: for a fetch that returned an object, the title shown is the object's
\* title when it has a non-empty one and "<no title>" otherwise, the url
\* shown is the object's url when it has a non-empty one and the permalink of
\* the row's own id otherwise, each decided without regard to the other.
C17_Defaults ==
    \A id \in DOMAIN id_to_post :
        result[id].kind = "return" =>
            LET f == result[id].json.fields
                hasTitle == "title" \in DOMAIN f /\ f["title"].s # << >>
                hasUrl == "url" \in DOMAIN f /\ f["url"].s # << >>
            IN  /\ id_to_post[id][2].text =
                      IF hasTitle THEN f["title"].s ELSE << "<no title>" >>
                /\ id_to_post[id][3].text =
                      IF hasUrl THEN f["url"].s
                      ELSE << "https://news.ycombinator.com/item?id=" >> \o str(id)

\* an empty title replaced while the url is kept, next to an empty url
\* replaced while the title is kept
C17_Witness ==
    /\ Len(ids) = 2
    /\ DOMAIN id_to_post = Range(ids)
    /\ \A i \in 1..2 : result[ids[i]].kind = "return" /\
                          DOMAIN result[ids[i]].json.fields = { "title", "url" }
    /\ result[ids[1]].json.fields["title"].s = << >>
    /\ id_to_post[ids[1]][2].text = << "<no title>" >>
    /\ id_to_post[ids[1]][3].text = UrlOf(ids[1])
    /\ result[ids[2]].json.fields["url"].s = << >>
    /\ id_to_post[ids[2]][2].text = TitleOf(ids[2])
    /\ id_to_post[ids[2]][3].text = Permalink(ids[2])

\* C18: the lock is held through the induced sleep and released before the
\* wrapped request starts: no worker about to send or waiting for its
\* request holds the lock, so the lock is free whenever nobody is inside the
\* admission section, however many requests are in flight.
C18_LockReleasedBeforeRequest ==
    /\ \A id \in StoryIds :
          /\ tpc[id] = "sleep" => lock = id
          /\ tpc[id] \in { "call", "inflight", "done" } => lock # id
    /\ InGate = {} => lock = Free

\* one worker takes the lock while the other's request is in flight
C18_Witness ==
    \E a, b \in StoryIds :
        /\ tpc[a] = "inflight"
        /\ tpc[b] = "now"
        /\ lock = b

\* C19: an item fetch that returns a value that is no object is handled like
\* a failed fetch: once yielded, its id has the placeholder row and the run
\* goes on.
C19_NonObjectDegrades ==
    \A i \in 1..Len(yielded) :
        LET id == yielded[i]
        IN  (result[id].kind = "return" /\ result[id].json.type # "object") =>
                /\ id \in DOMAIN id_to_post
                /\ id_to_post[id] = PlaceholderRow(id_to_index[id])
                /\ pc \in { "collect", "exit_pool", "render", "print", "exit" }
                /\ ~exc

\* C16: once the listing has succeeded, every worker waiting at the gate is
\* eventually admitted, every submitted fetch task eventually completes, and
\* the run eventually renders the table.
C16_Liveness ==
    /\ \A id \in StoryIds : (tpc[id] = "acquire") ~> (admitted[id] = 1)
    /\ \A id \in StoryIds : (tpc[id] = "queued") ~> (tpc[id] = "done")
    /\ (pc = "submit") ~> (pc = "exit")

\* what holds of every fair run: the workers are admitted and finish, the
\* main thread leaves the barrier, and the run ends rendered or crashed
FairRunEnds ==
    /\ \A id \in StoryIds : (tpc[id] = "acquire") ~> (admitted[id] = 1)
    /\ \A id \in StoryIds : (tpc[id] = "queued") ~> (tpc[id] = "done")
    /\ (pc = "exit_pool") ~> (pc \in { "render", "crashed" })
    /\ (pc = "submit") ~> (pc \in { "exit", "crashed" })

====
